---- MODULE Spec2Model ----
(***************************************************************************)
(* Whoppah GEO Monitor: the Query Runner (schedule.run_queries), the       *)
(* keyword classifier (schedule.analyze_response), the scheduler singleton *)
(* (schedule.get_scheduler), the Result Store (data.py) and the manual     *)
(* trigger of the Streamlit entry point (app.main).                        *)
(*                                                                         *)
(* Texts are TLA+ strings; Len, SubSeq and \o act on them character by     *)
(* character, so substring tests and lower-casing are computed, not        *)
(* assumed.                                                                *)
(***************************************************************************)
EXTENDS Integers, Sequences, FiniteSets, TLC

(***************************************************************************)
(* Bounds of the model.                                                    *)
(***************************************************************************)
\* how many entries of the 45-entry catalog a run iterates over
NumQueries == 2
\* how many further keywords follow the first one in a generated response text
MaxExtra == 1
\* how many rows direct callers of add_result insert
MaxRows == 3
\* dashboard sessions (browser tabs), each running app.main in its own thread
NumSessions == 2
\* runs of run_queries, over all threads
MaxRuns == 2
\* the clock readings range over 0..MaxTime
MaxTime == 1
\* the limits latest(n) is asked with range over 0..MaxLimit
MaxLimit == 2

(***************************************************************************)
(* Strings.                                                                *)
(***************************************************************************)
\* str.lower() on one character (ASCII letters)
ToLower ==
    [c \in {"A","B","C","D","E","F","G","H","I","J","K","L","M",
            "N","O","P","Q","R","S","T","U","V","W","X","Y","Z"} |->
        CASE c = "A" -> "a" [] c = "B" -> "b" [] c = "C" -> "c" [] c = "D" -> "d"
          [] c = "E" -> "e" [] c = "F" -> "f" [] c = "G" -> "g" [] c = "H" -> "h"
          [] c = "I" -> "i" [] c = "J" -> "j" [] c = "K" -> "k" [] c = "L" -> "l"
          [] c = "M" -> "m" [] c = "N" -> "n" [] c = "O" -> "o" [] c = "P" -> "p"
          [] c = "Q" -> "q" [] c = "R" -> "r" [] c = "S" -> "s" [] c = "T" -> "t"
          [] c = "U" -> "u" [] c = "V" -> "v" [] c = "W" -> "w" [] c = "X" -> "x"
          [] c = "Y" -> "y" [] c = "Z" -> "z"]

LowerChar(c) == IF c \in DOMAIN ToLower THEN ToLower[c] ELSE c

\* text.lower()
RECURSIVE Lower(_)
Lower(s) ==
    IF Len(s) = 0 THEN ""
    ELSE LowerChar(SubSeq(s, 1, 1)) \o Lower(SubSeq(s, 2, Len(s)))

\* Python's `word in s` on strings: word occurs as a contiguous substring
Contains(word, s) ==
    \E i \in 1..(Len(s) - Len(word) + 1) : SubSeq(s, i, i + Len(word) - 1) = word

\* any(word in s for word in words)
AnyIn(words, s) == \E word \in words : Contains(word, s)

\* s[:n]
Prefix(s, n) == SubSeq(s, 1, IF Len(s) < n THEN Len(s) ELSE n)

(***************************************************************************)
(* schedule.py: the classifier.                                            *)
(***************************************************************************)
SUPERLATIVES == {"best", "great", "excellent", "amazing", "top", "superior"}

\* the chain without `if whoppah:` around it
ContextCategoryUnguarded(lower, whoppah) ==
    IF AnyIn({"recommend", "suggest", "best", "top", "great"}, lower)
    THEN "Recommendation"
    ELSE IF AnyIn({"buy", "purchase", "shop", "find"}, lower)
         THEN "Shopping"
    ELSE IF AnyIn({"sell", "selling", "marketplace", "platform"}, lower)
         THEN "Selling"
    ELSE IF AnyIn({"vintage", "antique", "designer", "luxury"}, lower)
         THEN "Premium"
    ELSE IF AnyIn({"sustainable", "circular", "eco", "second-hand"}, lower)
         THEN "Sustainability"
    ELSE IF AnyIn({"invest", "value", "authentic", "collector"}, lower)
         THEN "Investment"
    ELSE "General"

\* the chain with the Selling test moved in front of the Shopping test
ContextCategorySellingFirst(lower, whoppah) ==
    IF ~whoppah THEN "General"
    ELSE IF AnyIn({"recommend", "suggest", "best", "top", "great"}, lower)
         THEN "Recommendation"
    ELSE IF AnyIn({"sell", "selling", "marketplace", "platform"}, lower)
         THEN "Selling"
    ELSE IF AnyIn({"buy", "purchase", "shop", "find"}, lower)
         THEN "Shopping"
    ELSE IF AnyIn({"vintage", "antique", "designer", "luxury"}, lower)
         THEN "Premium"
    ELSE IF AnyIn({"sustainable", "circular", "eco", "second-hand"}, lower)
         THEN "Sustainability"
    ELSE IF AnyIn({"invest", "value", "authentic", "collector"}, lower)
         THEN "Investment"
    ELSE "General"

\* schedule.py:156-170, the if/elif chain over the lower-cased text
ContextCategory(lower, whoppah) ==
    IF ~whoppah THEN "General"
    ELSE IF AnyIn({"recommend", "suggest", "best", "top", "great"}, lower)
         THEN "Recommendation"
    ELSE IF AnyIn({"buy", "purchase", "shop", "find"}, lower)
         THEN "Shopping"
    ELSE IF AnyIn({"sell", "selling", "marketplace", "platform"}, lower)
         THEN "Selling"
    ELSE IF AnyIn({"vintage", "antique", "designer", "luxury"}, lower)
         THEN "Premium"
    ELSE IF AnyIn({"sustainable", "circular", "eco", "second-hand"}, lower)
         THEN "Sustainability"
    ELSE IF AnyIn({"invest", "value", "authentic", "collector"}, lower)
         THEN "Investment"
    ELSE "General"

\* the chain with the negative words tested before the superlatives
SentimentNegativeFirst(lower, whoppah) ==
    IF ~whoppah THEN "Neutral"
    ELSE IF AnyIn({"problem", "issue", "bad", "poor", "difficult"}, lower)
         THEN "Negative"
    ELSE IF AnyIn(SUPERLATIVES, lower) THEN "Positive"
    ELSE IF AnyIn({"good", "nice", "decent", "okay"}, lower) THEN "Positive"
    ELSE "Neutral"

\* schedule.py:172-180
Sentiment(lower, whoppah) ==
    IF ~whoppah THEN "Neutral"
    ELSE IF AnyIn(SUPERLATIVES, lower) THEN "Positive"
    ELSE IF AnyIn({"problem", "issue", "bad", "poor", "difficult"}, lower)
         THEN "Negative"
    ELSE IF AnyIn({"good", "nice", "decent", "okay"}, lower) THEN "Positive"
    ELSE "Neutral"

\* analyze_response(text) -> (whoppah_mentioned, context_category, sentiment)
analyze_response(text) ==
    LET lower == Lower(text)
        whoppah == Contains("whoppah", lower)
    IN  <<whoppah, ContextCategory(lower, whoppah), Sentiment(lower, whoppah)>>

(***************************************************************************)
(* schedule.py: the query catalog (its first entries; a run iterates over  *)
(* the first NumQueries of them, in order).                                *)
(***************************************************************************)
QUERIES ==
    << "What is Whoppah and how does it work?",
       "Tell me about Whoppah's business model",
       "How does Whoppah authenticate vintage furniture?",
       "What are the benefits of using Whoppah?" >>

Catalog == SubSeq(QUERIES, 1, NumQueries)

(***************************************************************************)
(* data.py: the table query_results.                                       *)
(***************************************************************************)
\* the columns of the QueryResult model, in declaration order
ModelColumns ==
    << "id", "timestamp", "query", "whoppah_mentioned", "chairish_mentioned",
       "context_category", "sentiment", "excerpt", "full_response" >>

\* the table as an earlier version of the program created it
OldColumns ==
    << "id", "timestamp", "query", "whoppah_mentioned", "chairish_mentioned",
       "sentiment", "excerpt", "full_response" >>

\* a row of the old table stores no value for context_category
NoValue == "<no value>"

\* excerpt = response_text[:200]
ExcerptLen == 200

Range(f) == {f[i] : i \in DOMAIN f}

VARIABLES
    columns,        \* columns of query_results, in order; << >>: no table yet
    rows,           \* the stored rows, in insertion order
    writer,         \* history: writer[i] is the run that inserted rows[i]
    now,            \* the wall clock read by datetime.now(T_ZONE)
    replies,        \* the texts the LLM service may answer with
    scheduler,      \* the global _scheduler: 0 is None, else an instance
    instances,      \* the BackgroundScheduler objects created so far
    pc,             \* where each thread is
    button,         \* per session: st.button("Run Now") of this script run
    ret,            \* per session: what get_scheduler() returned
    shown,          \* per session: what the script run showed the user
    runs,           \* run_queries calls started so far
    idx,            \* per thread: position of run_queries in the catalog
    response_text,  \* per thread: local of run_queries
    call,           \* per thread: the arguments evaluated for add_result
    hist,           \* history, per thread: the gateway calls of its run
    escaped,        \* per thread: what kind of exception left run_queries
    runId,          \* per thread: number of its current run
    read1,          \* a caller of get_latest_excerpts: its call after the last write
    read2           \* the same caller: its next call, no write in between

storeVars == <<columns, rows, writer>>
schedVars == <<scheduler, instances, ret>>
runVars == <<idx, response_text, call, hist, escaped, runId, runs>>
envVars == <<now, replies>>
readVars == <<read1, read2>>
vars == <<storeVars, schedVars, runVars, envVars, readVars, pc, button, shown>>

(***************************************************************************)
(* Threads: one per dashboard session, and the scheduler's job thread.     *)
(***************************************************************************)
Sessions == 1..NumSessions
Cron == 0
Threads == Sessions \cup {Cron}

InRun == {"call_llm", "analyze", "add_result"}

\* no call of get_latest_excerpts since the last write
NoRead == [n |-> -1, frame |-> << >>]

\* nothing evaluated yet for add_result
NoCall ==
    [timestamp |-> -1, query |-> "", whoppah_mentioned |-> FALSE,
     chairish_mentioned |-> FALSE, context_category |-> "", sentiment |-> "",
     excerpt |-> "", full_response |-> ""]

(***************************************************************************)
(* data.py: init_db = Base.metadata.create_all + _migrate_database.        *)
(***************************************************************************)
\* create_all(checkfirst): CREATE TABLE only when the table is absent
create_all(cols) == IF cols = << >> THEN ModelColumns ELSE cols

\* ALTER TABLE query_results ADD COLUMN context_category ... DEFAULT 'General'
\* (SQLite refuses a duplicate column name with an OperationalError)
AddColumn(cols) == Append(cols, "context_category")

\* init_db up to the PRAGMA table_info of _migrate_database (data.py:88, 65-68)
InitDb(s) ==
    /\ pc[s] = "init_db"
    /\ columns' = create_all(columns)
    /\ pc' = [pc EXCEPT ![s] =
                IF "context_category" \notin Range(columns')
                THEN "migrate" ELSE "gs_check"]
    /\ UNCHANGED <<rows, writer, schedVars, runVars, envVars, button, shown,
                   readVars>>

\* the ALTER TABLE of _migrate_database and its except clause (data.py:70-77)
MigrateAlter(s) ==
    /\ pc[s] = "migrate"
    /\ \/ /\ "context_category" \notin Range(columns)
          /\ columns' = AddColumn(columns)
       \/ columns' = columns      \* OperationalError, printed and swallowed
    /\ pc' = [pc EXCEPT ![s] = "gs_check"]
    /\ UNCHANGED <<rows, writer, schedVars, runVars, envVars, button, shown,
                   readVars>>

(***************************************************************************)
(* data.py: add_result, one INSERT in one transaction.                     *)
(***************************************************************************)
\* the INSERT names every model column but id
CanInsert(cols) == Range(ModelColumns) \subseteq Range(cols)

\* the row the INSERT stores for the arguments a; id is the next rowid
NewRow(rs, a) ==
    [id |-> Len(rs) + 1,
     timestamp |-> a.timestamp,
     query |-> a.query,
     whoppah_mentioned |-> a.whoppah_mentioned,
     chairish_mentioned |-> a.chairish_mentioned,
     context_category |-> a.context_category,
     sentiment |-> a.sentiment,
     excerpt |-> a.excerpt,
     full_response |-> a.full_response]

\* session.merge keyed on the query: the row of the same query is overwritten
InsertOrReplace(rs, a) ==
    IF \E i \in DOMAIN rs : rs[i].query = a.query
    THEN [i \in DOMAIN rs |->
            IF rs[i].query = a.query THEN [NewRow(rs, a) EXCEPT !.id = rs[i].id]
            ELSE rs[i]]
    ELSE Append(rs, NewRow(rs, a))

\* session.add(result); session.commit()
Insert(rs, a) == Append(rs, NewRow(rs, a))

\* a column added without DEFAULT: a SELECT reads what the row stores
RowViewStored(r) == r

\* what a SELECT reads of a stored row: the column default where the row
\* stores no value
RowView(r) ==
    [r EXCEPT !.context_category =
        IF r.context_category = NoValue THEN "General" ELSE r.context_category]

(***************************************************************************)
(* schedule.py: run_queries, one step per call it makes.                   *)
(***************************************************************************)
\* entry of run_queries: the for loop starts at the first catalog entry
StartRun(t) ==
    /\ idx' = [idx EXCEPT ![t] = 1]
    /\ response_text' = [response_text EXCEPT ![t] = ""]
    /\ call' = [call EXCEPT ![t] = NoCall]
    /\ hist' = [hist EXCEPT ![t] = << >>]
    /\ escaped' = [escaped EXCEPT ![t] = "none"]
    /\ runs' = runs + 1
    /\ runId' = [runId EXCEPT ![t] = runs + 1]

\* the next iteration of `for query in QUERIES`, or the end of the loop
NextIteration(t) ==
    IF idx[t] < Len(Catalog)
    THEN [pc |-> "call_llm", idx |-> idx[t] + 1, escaped |-> "none"]
    ELSE [pc |-> "returned", idx |-> idx[t], escaped |-> "none"]

\* call_llm without the try/except around it
AfterLlmFailureRaise(t) ==
    [pc |-> "raised", idx |-> idx[t], escaped |-> "UpstreamError"]

\* `except Exception: continue` around call_llm (schedule.py:195-198)
AfterLlmFailure(t) == NextIteration(t)

\* response_text = call_llm(query): the call raises (get_api_key finds no key, or the
\* remote call fails) or returns the content of the answer
CallLLM(t) ==
    /\ pc[t] = "call_llm"
    /\ \/ /\ hist' = [hist EXCEPT ![t] =
                Append(@, [query |-> Catalog[idx[t]], ok |-> FALSE, text |-> "", write |-> "none"])]
          /\ pc' = [pc EXCEPT ![t] = AfterLlmFailure(t).pc]
          /\ idx' = [idx EXCEPT ![t] = AfterLlmFailure(t).idx]
          /\ escaped' = [escaped EXCEPT ![t] = AfterLlmFailure(t).escaped]
          /\ UNCHANGED response_text
       \/ /\ \E r \in replies :
                /\ response_text' = [response_text EXCEPT ![t] = r]
                /\ hist' = [hist EXCEPT ![t] =
                      Append(@, [query |-> Catalog[idx[t]], ok |-> TRUE, text |-> r, write |-> "none"])]
          /\ pc' = [pc EXCEPT ![t] = "analyze"]
          /\ UNCHANGED <<idx, escaped>>
    /\ UNCHANGED <<storeVars, schedVars, envVars, call, runId, runs, button,
                   shown,
                   readVars>>

\* the arguments, were response_text a module global shared by the runs
ArgumentsShared(t) ==
    LET text == response_text[CHOOSE u \in Threads :
                    /\ response_text[u] # ""
                    /\ \A v \in Threads : response_text[v] # "" => u <= v]
        a == analyze_response(text)
    IN  [timestamp |-> now',
         query |-> Catalog[idx[t]],
         whoppah_mentioned |-> a[1],
         chairish_mentioned |-> FALSE,
         context_category |-> a[2],
         sentiment |-> a[3],
         excerpt |-> Prefix(text, ExcerptLen),
         full_response |-> text]

\* the keyword arguments run_queries passes to add_result (schedule.py:200-212)
Arguments(t) ==
    LET a == analyze_response(response_text[t])
    IN  [timestamp |-> now',
         query |-> Catalog[idx[t]],
         whoppah_mentioned |-> a[1],
         chairish_mentioned |-> FALSE,
         context_category |-> a[2],
         sentiment |-> a[3],
         excerpt |-> Prefix(response_text[t], ExcerptLen),
         full_response |-> response_text[t]]

\* analyze_response, the excerpt and datetime.now(T_ZONE); now is the last
\* reading of the clock, and the clock does not run backwards
Analyze(t) ==
    /\ pc[t] = "analyze"
    /\ now' \in now..MaxTime
    /\ call' = [call EXCEPT ![t] = Arguments(t)]
    /\ pc' = [pc EXCEPT ![t] = "add_result"]
    /\ UNCHANGED <<storeVars, schedVars, replies, idx, response_text, hist,
                   escaped, runId, runs, button, shown,
                   readVars>>

\* add_result inside the try block of call_llm
AfterStoreFailureContinue(t) == NextIteration(t)

\* add_result is called outside the try block: its exception leaves
\* run_queries (schedule.py:203-212)
AfterStoreFailure(t) ==
    [pc |-> "raised", idx |-> idx[t], escaped |-> "StorageError"]

\* add_result(...): the row is committed, or the write raises
AddResult(t) ==
    /\ pc[t] = "add_result"
    /\ \/ /\ CanInsert(columns)
          /\ rows' = Insert(rows, call[t])
          /\ writer' = Append(writer, <<t, runId[t]>>)
          /\ hist' = [hist EXCEPT ![t][Len(hist[t])].write = "ok"]
          /\ pc' = [pc EXCEPT ![t] = NextIteration(t).pc]
          /\ idx' = [idx EXCEPT ![t] = NextIteration(t).idx]
          /\ read1' = NoRead
          /\ read2' = NoRead
          /\ UNCHANGED escaped
       \/ /\ hist' = [hist EXCEPT ![t][Len(hist[t])].write = "failed"]
          /\ pc' = [pc EXCEPT ![t] = AfterStoreFailure(t).pc]
          /\ idx' = [idx EXCEPT ![t] = AfterStoreFailure(t).idx]
          /\ escaped' = [escaped EXCEPT ![t] = AfterStoreFailure(t).escaped]
          /\ UNCHANGED <<rows, writer, readVars>>
    /\ UNCHANGED <<columns, schedVars, envVars, response_text, call, runId,
                   runs, button, shown>>

\* run_queries returned: st.success in app.main (app.py:27), or the job ends
Completed(t) ==
    /\ pc[t] = "returned"
    /\ pc' = [pc EXCEPT ![t] = IF t = Cron THEN "off" ELSE "get_results"]
    /\ shown' = IF t = Cron THEN shown ELSE [shown EXCEPT ![t] = "success"]
    /\ UNCHANGED <<storeVars, schedVars, envVars, runVars, button,
                   readVars>>

\* st.success placed where it also runs when run_queries raised
ShownOnExceptionSuccess(s) == "success"

\* app.py:25-27: nothing catches the exception, st.success is not reached
ShownOnException(s) == "run_error"

\* the exception leaves run_queries: the script run of the session ends with
\* it, or the scheduler's executor logs it; the process goes on
Failed(t) ==
    /\ pc[t] = "raised"
    /\ pc' = [pc EXCEPT ![t] = "off"]
    /\ shown' = IF t = Cron THEN shown
                ELSE [shown EXCEPT ![t] = ShownOnException(t)]
    /\ UNCHANGED <<storeVars, schedVars, envVars, runVars, button,
                   readVars>>

(***************************************************************************)
(* schedule.py: get_scheduler, one step per statement.  Every statement    *)
(* reads the module global _scheduler again.                               *)
(***************************************************************************)
JobId == "daily-whoppah-run"

\* BackgroundScheduler(timezone=T_ZONE): a new, stopped scheduler, no jobs
NewScheduler == [jobs |-> << >>, running |-> FALSE]

\* add_job(run_queries, trigger, id=JobId, replace_existing=True)
add_job(sch) ==
    IF JobId \in Range(sch.jobs) THEN sch
    ELSE [sch EXCEPT !.jobs = Append(@, JobId)]

\* `if _scheduler is None:` (schedule.py:229)
GsCheck(s) ==
    /\ pc[s] = "gs_check"
    /\ pc' = [pc EXCEPT ![s] = IF scheduler = 0 THEN "gs_create" ELSE "gs_return"]
    /\ UNCHANGED <<storeVars, schedVars, runVars, envVars, button, shown,
                   readVars>>

\* `_scheduler = BackgroundScheduler(timezone=T_ZONE)` (schedule.py:230)
GsCreate(s) ==
    /\ pc[s] = "gs_create"
    /\ instances' = Append(instances, NewScheduler)
    /\ scheduler' = Len(instances) + 1
    /\ pc' = [pc EXCEPT ![s] = "gs_add_job"]
    /\ UNCHANGED <<storeVars, ret, runVars, envVars, button, shown,
                   readVars>>

\* `_scheduler.add_job(...)` (schedule.py:231-232)
GsAddJob(s) ==
    /\ pc[s] = "gs_add_job"
    /\ instances' = [instances EXCEPT ![scheduler] = add_job(@)]
    /\ pc' = [pc EXCEPT ![s] = "gs_start"]
    /\ UNCHANGED <<storeVars, scheduler, ret, runVars, envVars, button, shown,
                   readVars>>

\* `_scheduler.start()` (schedule.py:233); start() of a scheduler that is
\* already running raises SchedulerAlreadyRunningError, which ends the script
GsStart(s) ==
    /\ pc[s] = "gs_start"
    /\ IF instances[scheduler].running
       THEN /\ pc' = [pc EXCEPT ![s] = "off"]
            /\ shown' = [shown EXCEPT ![s] = "startup_error"]
            /\ UNCHANGED instances
       ELSE /\ instances' = [instances EXCEPT ![scheduler].running = TRUE]
            /\ pc' = [pc EXCEPT ![s] = "gs_return"]
            /\ UNCHANGED shown
    /\ UNCHANGED <<storeVars, scheduler, ret, runVars, envVars, button,
                   readVars>>

\* `return _scheduler` (schedule.py:235), then app.py:24-26: the button
GsReturn(s) ==
    /\ pc[s] = "gs_return"
    /\ ret' = [ret EXCEPT ![s] = scheduler]
    /\ button[s] => runs < MaxRuns
    /\ IF button[s]
       THEN /\ StartRun(s)
            /\ pc' = [pc EXCEPT ![s] = "call_llm"]
       ELSE /\ pc' = [pc EXCEPT ![s] = "get_results"]
            /\ UNCHANGED runVars
    /\ UNCHANGED <<storeVars, scheduler, instances, envVars, button, shown,
                   readVars>>

\* the cron trigger of a running scheduler fires its job
CronFire ==
    /\ pc[Cron] = "off"
    /\ runs < MaxRuns
    /\ \E i \in DOMAIN instances :
          instances[i].running /\ JobId \in Range(instances[i].jobs)
    /\ StartRun(Cron)
    /\ pc' = [pc EXCEPT ![Cron] = "call_llm"]
    /\ UNCHANGED <<storeVars, schedVars, envVars, button, shown,
                   readVars>>

(***************************************************************************)
(* data.py: the reads.                                                     *)
(***************************************************************************)
\* both reads select model columns: a table without one of them makes the
\* SELECT raise an OperationalError
CanSelect(cols) == Range(ModelColumns) \subseteq Range(cols)

\* the six columns get_latest_excerpts selects
Excerpt(r) ==
    [timestamp |-> r.timestamp, query |-> r.query,
     whoppah_mentioned |-> r.whoppah_mentioned,
     context_category |-> RowView(r).context_category,
     sentiment |-> r.sentiment, excerpt |-> r.excerpt]

\* ORDER BY timestamp, without .desc()
RECURSIVE OrderByTimestampAsc(_, _)
OrderByTimestampAsc(rs, S) ==
    IF S = {} THEN { << >> }
    ELSE UNION { { <<i>> \o q : q \in OrderByTimestampAsc(rs, S \ {i}) } :
                 i \in { j \in S : \A k \in S : rs[j].timestamp <= rs[k].timestamp } }

\* ORDER BY timestamp DESC: the orders of the row numbers in S that put no row
\* before a row with a later timestamp; the query names no second sort key,
\* so rows of equal timestamp may come in either order
RECURSIVE OrderByTimestampDesc(_, _)
OrderByTimestampDesc(rs, S) ==
    IF S = {} THEN { << >> }
    ELSE UNION { { <<i>> \o q : q \in OrderByTimestampDesc(rs, S \ {i}) } :
                 i \in { j \in S : \A k \in S : rs[j].timestamp >= rs[k].timestamp } }

\* LIMIT n
Limit(q, n) == SubSeq(q, 1, IF Len(q) < n THEN Len(q) ELSE n)

\* get_latest_excerpts(limit=n): the frames the query may return
get_latest_excerpts(rs, n) ==
    { [k \in 1..Len(Limit(q, n)) |-> Excerpt(rs[q[k]])] :
        q \in OrderByTimestampDesc(rs, DOMAIN rs) }

(***************************************************************************)
(* app.py: main, one script run per user interaction.                      *)
(***************************************************************************)
\* a session (re)runs the script, with the "Run Now" button pressed or not
Rerun(s, b) ==
    /\ pc[s] = "off"
    /\ b => runs < MaxRuns
    /\ button' = [button EXCEPT ![s] = b]
    /\ shown' = [shown EXCEPT ![s] = "none"]
    /\ pc' = [pc EXCEPT ![s] = "init_db"]
    /\ UNCHANGED <<storeVars, schedVars, runVars, envVars,
                   readVars>>

\* df = get_results(start=start_date, end=end_date) (app.py:30-32); the frame
\* goes to the charts
GetResults(s) ==
    /\ pc[s] = "get_results"
    /\ IF CanSelect(columns)
       THEN /\ pc' = [pc EXCEPT ![s] = "latest"]
            /\ UNCHANGED shown
       ELSE /\ pc' = [pc EXCEPT ![s] = "off"]
            /\ shown' = [shown EXCEPT ![s] = "read_error"]
    /\ UNCHANGED <<storeVars, schedVars, runVars, envVars, button,
                   readVars>>

\* ui.display_latest_excerpts() (app.py:33); the frame goes to the table and
\* the script run ends
Latest(s) ==
    /\ pc[s] = "latest"
    /\ shown' = IF CanSelect(columns) THEN shown
                ELSE [shown EXCEPT ![s] = "read_error"]
    /\ pc' = [pc EXCEPT ![s] = "off"]
    /\ UNCHANGED <<storeVars, schedVars, runVars, envVars, button,
                   readVars>>

(***************************************************************************)
(* The process: a store file left by an earlier process (or none), no      *)
(* scheduler yet, the sessions and the job thread at rest.                 *)
(***************************************************************************)
\* a row written by the version of the program without context_category
OldRow ==
    [id |-> 1, timestamp |-> 0, query |-> QUERIES[1],
     whoppah_mentioned |-> TRUE, chairish_mentioned |-> FALSE,
     context_category |-> NoValue, sentiment |-> "Positive",
     excerpt |-> "Whoppah is great", full_response |-> "Whoppah is great"]

\* the answers the LLM service gives in the runs of Spec
SampleReplies == { "Whoppah is the best platform", "Try a flea market, bad luck" }

InitProcess ==
    /\ writer = [i \in DOMAIN rows |-> <<-1, 0>>]
    /\ now = 0
    /\ scheduler = 0
    /\ instances = << >>
    /\ pc = [t \in Threads |-> "off"]
    /\ button = [s \in Sessions |-> FALSE]
    /\ ret = [s \in Sessions |-> 0]
    /\ shown = [s \in Sessions |-> "none"]
    /\ idx = [t \in Threads |-> 1]
    /\ response_text = [t \in Threads |-> ""]
    /\ call = [t \in Threads |-> NoCall]
    /\ hist = [t \in Threads |-> << >>]
    /\ escaped = [t \in Threads |-> "none"]
    /\ runId = [t \in Threads |-> 0]
    /\ runs = 0
    /\ read1 = NoRead
    /\ read2 = NoRead

Init ==
    /\ \/ columns = << >> /\ rows = << >>
       \/ columns = OldColumns /\ rows = <<OldRow>>
    /\ replies = SampleReplies
    /\ InitProcess

\* the session whose user presses "Run Now"
Operator == 1

\* one dashboard session and the scheduler's job thread
Next ==
    \/ \E b \in BOOLEAN : Rerun(Operator, b)
    \/ InitDb(Operator) \/ MigrateAlter(Operator)
    \/ GsCheck(Operator) \/ GsCreate(Operator) \/ GsAddJob(Operator)
    \/ GsStart(Operator) \/ GsReturn(Operator)
    \/ GetResults(Operator) \/ Latest(Operator)
    \/ \E t \in {Operator, Cron} :
          \/ CallLLM(t) \/ Analyze(t) \/ AddResult(t) \/ Completed(t) \/ Failed(t)
    \/ CronFire

Spec == Init /\ [][Next]_vars

(***************************************************************************)
(* The scheduler at process start: every session loads the page; nobody    *)
(* presses the button and the cron trigger is not due.                     *)
(***************************************************************************)
NextSched ==
    \E s \in Sessions :
        \/ Rerun(s, FALSE) \/ InitDb(s) \/ MigrateAlter(s)
        \/ GsCheck(s) \/ GsCreate(s) \/ GsAddJob(s) \/ GsStart(s) \/ GsReturn(s)
        \/ GetResults(s) \/ Latest(s)

SchedSpec == Init /\ [][NextSched]_vars

(***************************************************************************)
(* init_db on every kind of store file: none, one of the version without   *)
(* context_category, one migrated from it, one created by this version.    *)
(* Every page load of every session calls init_db again.                   *)
(***************************************************************************)
\* a row written by this version of the program
CurrentRow ==
    [id |-> 2, timestamp |-> 1, query |-> QUERIES[2],
     whoppah_mentioned |-> TRUE, chairish_mentioned |-> FALSE,
     context_category |-> "Selling", sentiment |-> "Neutral",
     excerpt |-> "Sell it on Whoppah", full_response |-> "Sell it on Whoppah"]

InitAnyStore ==
    /\ \/ columns = << >> /\ rows = << >>
       \/ columns = OldColumns /\ rows = <<OldRow>>
       \/ columns = OldColumns \o <<"context_category">> /\ rows = <<OldRow, CurrentRow>>
       \/ columns = ModelColumns /\ rows = <<[CurrentRow EXCEPT !.id = 1]>>
    /\ replies = SampleReplies
    /\ InitProcess

InitSpec == InitAnyStore /\ [][NextSched]_vars

(***************************************************************************)
(* The Result Store under direct callers: add_result with any arguments,   *)
(* get_latest_excerpts with any limit.                                     *)
(***************************************************************************)
\* the response text the direct callers store
StoreReply == "Whoppah is the best platform"

\* add_result(timestamp=ts, query=q, ..., full_response=text)
StoreAdd(ts, q, text) ==
    /\ Len(rows) < MaxRows
    /\ CanInsert(columns)
    /\ LET a == analyze_response(text)
       IN  rows' = Insert(rows,
                [timestamp |-> ts, query |-> q, whoppah_mentioned |-> a[1],
                 chairish_mentioned |-> FALSE, context_category |-> a[2],
                 sentiment |-> a[3], excerpt |-> Prefix(text, ExcerptLen),
                 full_response |-> text])
    /\ writer' = Append(writer, <<-1, 0>>)
    /\ read1' = NoRead
    /\ read2' = NoRead
    /\ UNCHANGED <<columns, schedVars, runVars, envVars, pc, button, shown>>

\* get_latest_excerpts(limit=n), and once more with the same limit
StoreLatest(n) ==
    /\ CanSelect(columns)
    /\ read2 = NoRead
    /\ read1 # NoRead => n = read1.n
    /\ \E f \in get_latest_excerpts(rows, n) :
          IF read1 = NoRead
          THEN read1' = [n |-> n, frame |-> f] /\ UNCHANGED read2
          ELSE read2' = [n |-> n, frame |-> f] /\ UNCHANGED read1
    /\ UNCHANGED <<storeVars, schedVars, runVars, envVars, pc, button, shown>>

InitStore ==
    /\ \/ columns = ModelColumns /\ rows = << >>
       \/ columns = OldColumns \o <<"context_category">> /\ rows = <<OldRow>>
    /\ replies = SampleReplies
    /\ InitProcess

NextStore ==
    \/ \E ts \in 0..MaxTime, q \in Range(Catalog) :
          StoreAdd(ts, q, StoreReply)
    \/ \E n \in 0..MaxLimit : StoreLatest(n)

StoreSpec == InitStore /\ [][NextStore]_vars

(***************************************************************************)
(* The classifier inside a pass: the gateway answers the last catalog      *)
(* entry of a manual pass with a text drawn from Texts.                    *)
(***************************************************************************)
\* how a generated text begins: without the brand, or with it in some case
Heads == { "", "Whoppah ", "I like WHOPPAH, ", "whoppa h " }

\* every keyword of analyze_response, and words that only contain or resemble one
Words ==
    { "recommend", "suggest", "best", "top", "great",
      "buy", "purchase", "shop", "find",
      "sell", "selling", "marketplace", "platform",
      "vintage", "antique", "designer", "luxury",
      "sustainable", "circular", "eco", "second-hand",
      "invest", "value", "authentic", "collector",
      "excellent", "amazing", "superior",
      "problem", "issue", "bad", "poor", "difficult",
      "good", "nice", "decent", "okay",
      "laptop", "Tissue", "chairs", "" }

\* what may follow the first word
Extras ==
    { " TOP", " shop", " platform", " bad", " okay", " seconds" }

RECURSIVE Tails(_)
Tails(k) ==
    IF k = 0 THEN { "" }
    ELSE Tails(k - 1) \cup { t \o e : t \in Tails(k - 1), e \in Extras }

Texts == { h \o w \o t : h \in Heads, w \in Words, t \in Tails(MaxExtra) }

InitClassify ==
    /\ columns = ModelColumns
    /\ rows = << >>
    /\ writer = << >>
    /\ now = 0
    /\ replies \in { {t} : t \in Texts }
    /\ scheduler = 1
    /\ instances = << [jobs |-> <<JobId>>, running |-> TRUE] >>
    /\ pc = [t \in Threads |-> IF t = Operator THEN "call_llm" ELSE "off"]
    /\ button = [s \in Sessions |-> s = Operator]
    /\ ret = [s \in Sessions |-> IF s = Operator THEN 1 ELSE 0]
    /\ shown = [s \in Sessions |-> "none"]
    /\ idx = [t \in Threads |-> IF t = Operator THEN Len(Catalog) ELSE 1]
    /\ response_text = [t \in Threads |-> ""]
    /\ call = [t \in Threads |-> NoCall]
    /\ hist = [t \in Threads |->
                 IF t = Operator
                 THEN [i \in 1..(Len(Catalog) - 1) |->
                          [query |-> Catalog[i], ok |-> FALSE, text |-> "",
                           write |-> "none"]]
                 ELSE << >>]
    /\ escaped = [t \in Threads |-> "none"]
    /\ runId = [t \in Threads |-> IF t = Operator THEN 1 ELSE 0]
    /\ runs = 1
    /\ read1 = NoRead
    /\ read2 = NoRead

NextClassify ==
    \/ CallLLM(Operator) \/ Analyze(Operator) \/ AddResult(Operator)
    \/ Completed(Operator) \/ Failed(Operator)

ClassifySpec == InitClassify /\ [][NextClassify]_vars

(***************************************************************************)
(* Properties of the classifier (ClassifySpec).                            *)
(***************************************************************************)
\* the brand name occurs in text at position i, each letter in either case
BrandAt(text, i) ==
    \A k \in 1..7 :
        SubSeq(text, i + k - 1, i + k - 1)
            \in { SubSeq("whoppah", k, k), SubSeq("WHOPPAH", k, k) }

BrandIn(text) == \E i \in 1..(Len(text) - 6) : BrandAt(text, i)

\* the threads whose add_result arguments are evaluated and not yet stored
Classified == { t \in Threads : pc[t] = "add_result" }

\* the rows the Query Runner has written
RunnerRows == { rows[i] : i \in { j \in DOMAIN rows : writer[j][1] # -1 } }

\* C7: a response text without the brand name (in any case) is classified
\* (false, General, Neutral) whatever keywords it contains, and so every row
\* the Query Runner persists with mentioned = false is General and Neutral.
C7_NoMentionIsGeneralNeutral ==
    /\ \A t \in Classified :
          ~BrandIn(response_text[t]) =>
              /\ call[t].whoppah_mentioned = FALSE
              /\ call[t].context_category = "General"
              /\ call[t].sentiment = "Neutral"
    /\ \A r \in RunnerRows :
          r.whoppah_mentioned = FALSE =>
              r.context_category = "General" /\ r.sentiment = "Neutral"

\* a persisted row without the brand whose text holds a Recommendation
\* keyword and a negative word
C7_Witness ==
    \E r \in RunnerRows :
        /\ r.whoppah_mentioned = FALSE
        /\ Contains("top", Lower(r.full_response))
        /\ Contains("bad", Lower(r.full_response))

\* the keyword groups of the context category, in priority order
CategoryGroups ==
    << [name |-> "Recommendation",
        words |-> {"recommend", "suggest", "best", "top", "great"}],
       [name |-> "Shopping", words |-> {"buy", "purchase", "shop", "find"}],
       [name |-> "Selling",
        words |-> {"sell", "selling", "marketplace", "platform"}],
       [name |-> "Premium",
        words |-> {"vintage", "antique", "designer", "luxury"}],
       [name |-> "Sustainability",
        words |-> {"sustainable", "circular", "eco", "second-hand"}],
       [name |-> "Investment",
        words |-> {"invest", "value", "authentic", "collector"}] >>

\* the first group with a keyword in the lower-cased text, else General
FirstGroup(text) ==
    LET hits == { g \in DOMAIN CategoryGroups :
                     \E w \in CategoryGroups[g].words : Contains(w, Lower(text)) }
    IN  IF hits = {} THEN "General"
        ELSE CategoryGroups[CHOOSE g \in hits : \A h \in hits : g <= h].name

\* C8: for a text that mentions the brand the category is that of the first
\* keyword group, in the order Recommendation, Shopping, Selling, Premium,
\* Sustainability, Investment, with a keyword occurring as a substring of the
\* lower-cased text, General when there is none; the brand together with any
\* of recommend/suggest/best/top/great gives Recommendation.
C8_CategoryIsFirstMatchingGroup ==
    /\ \A t \in Classified :
          BrandIn(response_text[t]) =>
              /\ call[t].context_category = FirstGroup(response_text[t])
              /\ AnyIn({"recommend", "suggest", "best", "top", "great"},
                       Lower(response_text[t]))
                    => call[t].context_category = "Recommendation"
    /\ \A r \in RunnerRows :
          r.whoppah_mentioned => r.context_category = FirstGroup(r.full_response)

\* a text with the brand, a Shopping keyword and a Selling keyword
C8_Witness ==
    \E t \in Classified :
        /\ BrandIn(response_text[t])
        /\ Contains("shop", Lower(response_text[t]))
        /\ Contains("platform", Lower(response_text[t]))
        /\ call[t].context_category = "Shopping"

\* the sentiment by fixed priority
SentimentByPriority(text) ==
    LET lower == Lower(text)
    IN  IF \E w \in {"best", "great", "excellent", "amazing", "top", "superior"} :
              Contains(w, lower)
        THEN "Positive"
        ELSE IF \E w \in {"problem", "issue", "bad", "poor", "difficult"} :
                   Contains(w, lower)
        THEN "Negative"
        ELSE IF \E w \in {"good", "nice", "decent", "okay"} : Contains(w, lower)
        THEN "Positive"
        ELSE "Neutral"

\* C9: for a text that mentions the brand the sentiment is Positive if a
\* superlative occurs, otherwise Negative if a negative word occurs, otherwise
\* Positive if one of good/nice/decent/okay occurs, otherwise Neutral; a text
\* with a superlative and a negative word is Positive.
C9_SentimentByPriority ==
    /\ \A t \in Classified :
          BrandIn(response_text[t]) =>
              /\ call[t].sentiment = SentimentByPriority(response_text[t])
              /\ ( /\ AnyIn({"best", "great", "excellent", "amazing", "top",
                             "superior"}, Lower(response_text[t]))
                   /\ AnyIn({"problem", "issue", "bad", "poor", "difficult"},
                            Lower(response_text[t])) )
                    => call[t].sentiment = "Positive"
    /\ \A r \in RunnerRows :
          r.whoppah_mentioned => r.sentiment = SentimentByPriority(r.full_response)

\* a text with the brand, a superlative and a negative word
C9_Witness ==
    \E t \in Classified :
        /\ BrandIn(response_text[t])
        /\ Contains("excellent", Lower(response_text[t]))
        /\ Contains("bad", Lower(response_text[t]))
        /\ call[t].sentiment = "Positive"

(***************************************************************************)
(* Properties of the Query Runner (Spec).                                  *)
(***************************************************************************)
\* the threads that have entered run_queries at least once
Runners == { t \in Threads : runId[t] > 0 }

\* t is inside its run / its run is over (hist, idx, escaped keep describing
\* the last run until the thread enters run_queries again)
Running(t) == pc[t] \in InRun
Over(t) == ~Running(t)

\* the row numbers written by the current (or last) run of t, in store order
RowsOf(t) == SelectSeq([i \in DOMAIN rows |-> i], LAMBDA i : writer[i] = <<t, runId[t]>>)

\* the gateway calls of the run of t that succeeded / failed, in call order
Succeeded(t) == SelectSeq(hist[t], LAMBDA h : h.ok)
FailedCalls(t) == SelectSeq(hist[t], LAMBDA h : ~h.ok)

\* a Result Store write of the run of t has failed
WriteFailed(t) == \E i \in DOMAIN hist[t] : hist[t][i].write = "failed"

\* C1: whatever subset of the gateway calls of a run fails, the run visits the
\* catalog entries in catalog order, persists exactly one row for each entry
\* whose call succeeded and none for an entry whose call failed, no exception
\* of a gateway call leaves run_queries, and a run in which no store write
\* fails visits every entry and returns (N entries, one failing call: N - 1
\* rows).
C1_RunSurvivesGatewayFailures ==
    \A t \in Runners :
        /\ escaped[t] # "UpstreamError"
        /\ Len(hist[t]) <= Len(Catalog)
        /\ \A i \in DOMAIN hist[t] : hist[t][i].query = Catalog[i]
        /\ Running(t) => Len(hist[t]) = IF pc[t] = "call_llm" THEN idx[t] - 1 ELSE idx[t]
        /\ ~WriteFailed(t) =>
              /\ pc[t] # "raised" /\ escaped[t] = "none"
              /\ Over(t) => Len(hist[t]) = Len(Catalog)
              /\ LET done == IF pc[t] \in {"analyze", "add_result"}
                             THEN SubSeq(Succeeded(t), 1, Len(Succeeded(t)) - 1)
                             ELSE Succeeded(t)
                 IN  /\ Len(RowsOf(t)) = Len(done)
                     /\ \A k \in DOMAIN done :
                           /\ rows[RowsOf(t)[k]].query = done[k].query
                           /\ rows[RowsOf(t)[k]].full_response = done[k].text
              /\ Over(t) => Len(RowsOf(t)) = Len(Catalog) - Len(FailedCalls(t))

\* a run that returned although the call for its first entry failed: one row
\* fewer than catalog entries
C1_Witness ==
    \E t \in Runners :
        /\ pc[t] = "returned"
        /\ ~hist[t][1].ok
        /\ Len(FailedCalls(t)) = 1
        /\ Len(RowsOf(t)) = Len(Catalog) - 1

\* what C2 says of every state: a failed write of a run is the last thing the
\* run did; it stored no row for that query, visited no later entry, did not
\* return, and its session was not shown the success message
C2_State ==
    \A t \in Runners :
        WriteFailed(t) =>
            /\ hist[t][Len(hist[t])].write = "failed"
            /\ Len(hist[t]) = idx[t]
            /\ pc[t] \notin InRun \cup {"returned"}
            /\ escaped[t] = "StorageError"
            /\ \A k \in DOMAIN RowsOf(t) :
                  rows[RowsOf(t)[k]].query # hist[t][Len(hist[t])].query
            /\ Len(RowsOf(t)) = Len(Succeeded(t)) - 1
            /\ t \in Sessions => shown[t] # "success"

\* what C2 says of every step that takes the exception out of run_queries: the
\* caller gets it (a session shows the error, not the success message), the
\* thread is at rest again, and nothing else in the process changes
C2_Step ==
    \A t \in Threads :
        (pc[t] = "raised" /\ pc'[t] # "raised") =>
            /\ pc'[t] = "off"
            /\ t \in Sessions => shown'[t] = "run_error"
            /\ rows' = rows /\ columns' = columns
            /\ \A u \in Threads \ {t} : pc'[u] = pc[u]
            /\ scheduler' = scheduler /\ instances' = instances

\* C2: a failed Result Store write is not recovered by the Query Runner: the
\* error leaves the run and reaches its caller, the run stays incomplete for
\* the failing query, and the process keeps running.
C2_StoreFailurePropagates == [][C2_State' /\ C2_Step]_vars

\* after a failed write in the manual run the session has been shown the
\* error, and the scheduler's job is running a later pass
C2_Witness ==
    /\ WriteFailed(Operator)
    /\ shown[Operator] = "run_error"
    /\ pc[Operator] = "off"
    /\ pc[Cron] \in InRun
    /\ runId[Cron] > runId[Operator]

(***************************************************************************)
(* Properties of the scheduler singleton (SchedSpec).                      *)
(***************************************************************************)
\* no get_scheduler call is in progress, and at least one was made
Settled ==
    /\ \A s \in Sessions :
          pc[s] \notin {"gs_check", "gs_create", "gs_add_job", "gs_start", "gs_return"}
    /\ \E s \in Sessions : ret[s] # 0 \/ shown[s] = "startup_error"

\* C3: after any number of get_scheduler requests, in any interleaving of the
\* callers, exactly one scheduler instance has been created and started,
\* exactly one daily job is registered on it, and every request returned that
\* same instance.
C3_SchedulerStartedOnce ==
    Settled =>
        /\ Len(instances) = 1
        /\ instances[1].running
        /\ instances[1].jobs = <<JobId>>
        /\ \A s \in Sessions :
              /\ shown[s] # "startup_error"
              /\ ret[s] # 0 => ret[s] = 1

(***************************************************************************)
(* Properties of overlapping runs (Spec).                                  *)
(***************************************************************************)
\* the rows of the store that were written from the history entry h of the
\* current run of t
RowsFor(t, h) ==
    { i \in DOMAIN rows : writer[i] = <<t, runId[t]>> /\ rows[i].query = h.query }

\* row r holds exactly the fields of the append made for history entry h
WrittenFrom(r, h) ==
    /\ r.query = h.query
    /\ r.full_response = h.text
    /\ r.excerpt = Prefix(h.text, ExcerptLen)
    /\ <<r.whoppah_mentioned, r.context_category, r.sentiment>> = analyze_response(h.text)
    /\ r.chairish_mentioned = FALSE
    /\ r.timestamp \in 0..now

\* C4: when the scheduled run and a manual run overlap, in every interleaving
\* each append is one insert: every successful, stored query of each run has
\* exactly one row (so a query may have two rows, one per run), no row is
\* lost, every row has its own id, and every row holds the fields of one
\* append only.
C4_ConcurrentAppendsAtomic ==
    /\ \A i \in DOMAIN rows : rows[i].id = i
    /\ Len(writer) = Len(rows)
    /\ \A t \in Runners :
          /\ \A k \in DOMAIN hist[t] :
                IF hist[t][k].write = "ok"
                THEN /\ Cardinality(RowsFor(t, hist[t][k])) = 1
                     /\ \A i \in RowsFor(t, hist[t][k]) : WrittenFrom(rows[i], hist[t][k])
                ELSE RowsFor(t, hist[t][k]) = {}
          /\ \A i \in DOMAIN rows :
                writer[i] = <<t, runId[t]>> =>
                    \E k \in DOMAIN hist[t] : i \in RowsFor(t, hist[t][k])

\* the appends of the two runs are interleaved, and a query has one row from
\* each
C4_Witness ==
    /\ \E i, j, k \in DOMAIN rows :
          /\ i < j /\ j < k
          /\ writer[i] = writer[k] /\ writer[j] # writer[i]
          /\ writer[i][1] # -1 /\ writer[j][1] # -1
          /\ rows[i].query = rows[j].query

(***************************************************************************)
(* Properties of the Result Store (Spec, StoreSpec).                       *)
(***************************************************************************)
IsPrefix(p, q) == Len(p) <= Len(q) /\ \A i \in DOMAIN p : p[i] = q[i]

\* C5: rows are immutable once written: whatever initialize, append, query,
\* latest or a run does, every stored row stays in the store, in its place and
\* with the field values it was written with; the only change to the rows is
\* one new row at the end, and the table only ever gains columns.
C5_RowsImmutable ==
    [][ /\ IsPrefix(rows, rows')
        /\ Len(rows') <= Len(rows) + 1
        /\ columns # << >> => IsPrefix(columns, columns')
        /\ \A i \in DOMAIN rows :
              \A c \in {"context_category"} \cap Range(columns) :
                  RowView(rows'[i]).context_category = RowView(rows[i]).context_category
      ]_vars

\* the store was migrated by init_db, holds the old row and rows of two runs,
\* and the session has read it after its pass
C5_Witness ==
    /\ columns = OldColumns \o <<"context_category">>
    /\ Len(rows) >= 3
    /\ rows[1] = OldRow
    /\ \E i, j \in DOMAIN rows : writer[i][1] = Cron /\ writer[j][1] = Operator
    /\ pc[Operator] = "off" /\ shown[Operator] = "success"

\* C6 as stated: the manual trigger reports completion when the pass
\* completes, even if individual queries failed, and raises instead of
\* reporting completion when no query of the pass could be processed.
C6_RaisesOnTotalFailure ==
    \A s \in Sessions :
        shown[s] = "success" =>
            /\ Len(hist[s]) = Len(Catalog)
            /\ \E k \in DOMAIN hist[s] : hist[s][k].write = "ok"

\* C6 as amended: the manual trigger runs the pass in the session's own
\* thread and reports completion whenever run_queries returns, which it does
\* when no Result Store write failed, even if every gateway call failed; it
\* raises to its caller exactly when a Result Store write failed.
C6_ManualTriggerOutcome ==
    \A s \in Sessions :
        /\ (button[s] /\ pc[s] = "get_results") => shown[s] = "success"
        /\ shown[s] = "success" =>
              /\ Len(hist[s]) = Len(Catalog)
              /\ ~WriteFailed(s)
        /\ shown[s] = "run_error" => WriteFailed(s)
        /\ (WriteFailed(s) /\ pc[s] = "off" /\ shown[s] # "startup_error")
              => shown[s] \in {"run_error", "none", "read_error"}
        /\ (WriteFailed(s) /\ pc[s] = "off" /\ runs < MaxRuns /\ button[s])
              => shown[s] = "run_error"

\* every gateway call of the manual pass failed and the session is shown the
\* success message
C6_Witness ==
    \E s \in Sessions :
        /\ shown[s] = "success"
        /\ Len(hist[s]) = Len(Catalog)
        /\ \A k \in DOMAIN hist[s] : ~hist[s][k].ok

Min(a, b) == IF a < b THEN a ELSE b

\* the rows of frame f come in non-increasing / decreasing timestamp order
NonIncreasing(f) ==
    \A k \in 1..(Len(f) - 1) : f[k].timestamp >= f[k + 1].timestamp
Decreasing(f) ==
    \A k \in 1..(Len(f) - 1) : f[k].timestamp > f[k + 1].timestamp

\* frame f holds the n most recent rows of the store: for every time v, as
\* many rows from v on as the store has, up to n
MostRecent(f, n) ==
    /\ Len(f) = Min(n, Len(rows))
    /\ \A k \in DOMAIN f : \E i \in DOMAIN rows : f[k] = Excerpt(rows[i])
    /\ \A v \in 0..MaxTime :
          Cardinality({ k \in DOMAIN f : f[k].timestamp >= v })
              = Min(n, Cardinality({ i \in DOMAIN rows : rows[i].timestamp >= v }))

TimestampsOf(f) == [k \in DOMAIN f |-> f[k].timestamp]

SharedTimestamp ==
    \E i, j \in DOMAIN rows : i # j /\ rows[i].timestamp = rows[j].timestamp

CountCC(cols) == Cardinality({ k \in DOMAIN cols : cols[k] = "context_category" })

\* session s leaves init_db with this step
InitDbReturns(s) == pc[s] \in {"init_db", "migrate"} /\ pc'[s] = "gs_check"

\* the ALTER TABLE of s was refused although the column is missing (the file
\* is locked or read-only); _migrate_database prints the error and returns
AlterFailed(s) ==
    pc[s] = "migrate" /\ "context_category" \notin Range(columns) /\ columns' = columns

\* C11: init_db is idempotent and additive: on a store with no schema, with
\* the old schema or with the current schema, every call that returns, the
\* first or a later one, leaves exactly one context_category column, which
\* reads General for the rows written without it, and every stored row keeps
\* its stored values; once the column is there, a further call changes
\* nothing. (A call whose ALTER TABLE the engine refuses leaves the store as
\* it was.)
C11_InitDbIdempotentAdditive ==
    [][ /\ rows' = rows
        /\ columns # << >> => IsPrefix(columns, columns')
        /\ CountCC(columns') <= 1
        /\ "context_category" \in Range(columns) => columns' = columns
        /\ \A s \in Sessions :
              /\ (InitDbReturns(s) /\ ~AlterFailed(s)) =>
                  /\ CountCC(columns') = 1
                  /\ Range(ModelColumns) \subseteq Range(columns')
                  /\ \A i \in DOMAIN rows' :
                        RowView(rows'[i]).context_category =
                            IF rows[i].context_category = NoValue THEN "General"
                            ELSE rows[i].context_category
              /\ (InitDbReturns(s) /\ AlterFailed(s)) => columns' = columns
      ]_vars

\* the store of the old version was migrated, its row is still there, and
\* session 1, which completed a page load before, has returned from init_db
\* once more while session 2 has loaded the page too
C11_Witness ==
    /\ columns = OldColumns \o <<"context_category">>
    /\ rows = <<OldRow>>
    /\ ret[1] # 0 /\ pc[1] = "gs_check"
    /\ ret[2] # 0
====
